---- MODULE Spec2Model ----
(***************************************************************************)
(* Model of the multi-file conversion backend (src/unnamed/part_001):      *)
(* the POST /convert handler, performConversion and the working directory. *)
(*                                                                         *)
(* One action is one run of the handler between two suspension points      *)
(* (an awaited external tool, the download, the archive).  An external     *)
(* tool is a black box: its exit status and the files it leaves behind are *)
(* chosen nondeterministically, independently of each other.               *)
(***************************************************************************)
EXTENDS Integers, Sequences, FiniteSets, TLC

\* ------------------------------------------------------------------ bounds

\* Files per request explored by the model (the route accepts UploadLimit).
MaxFiles == 3
\* Largest page count a rasterization produces in the model.
MaxPages == 11
\* Last millisecond the clock reaches.
MaxClock == 1
\* Files per request when two requests run concurrently (SpecConc).
ConcFiles == 1
\* Files per request when deletions may fail (SpecFaults).
FaultFiles == 2

\* upload.array('files', 4)
UploadLimit == 4

VARIABLES
    now,      \* the time Date.now() returned last, in milliseconds
    rnd,      \* number of Math.random() draws so far: each draw is a fresh token
    fs,       \* the paths that exist in the working directory uploads/
    req,      \* per request: the handler's locals and its position
    load,     \* which requests arrive, how many files each may carry, and
              \* whether fs.unlinkSync may fail
    cls,      \* an extension string and what the two getFileCategory return for it
    single    \* server.js: the single-file handler's locals and its position

vars == <<now, rnd, fs, req, load, cls, single>>

Requests == {1, 2}

Min(a, b) == IF a < b THEN a ELSE b

\* ------------------------------------------------------------- extensions

ImageExts == {"png", "jpg", "jpeg", "gif", "webp", "bmp", "svg", "ico", "tiff", "tif"}
DocumentExts == {"pdf", "docx", "doc", "odt", "txt", "rtf", "ppt", "pptx", "odp"}
AudioExts == {"mp3", "wav", "ogg", "m4a", "flac", "aac"}
VideoExts == {"mp4", "avi", "mov", "mkv", "webm", "flv"}

\* The value getFileCategory returns for an extension in no table (null).
Unknown == "null"

\* The extensions of the uploaded files' original names (already lower-cased
\* by the handler) and the targetFormat values the model draws from.  "" is
\* a missing targetFormat field.
SourceExts == {"png", "pdf", "txt", "mp3", "mp4", "xyz"}
TargetFormats == {"", "jpg", "pdf", "docx", "wav", "mp4", "xyz"}

getFileCategory(ext) ==
    IF ext \in ImageExts THEN "image"
    ELSE IF ext \in DocumentExts THEN "document"
    ELSE IF ext \in AudioExts THEN "audio"
    ELSE IF ext \in VideoExts THEN "video"
    ELSE Unknown

\* ------------------------------------------- extension strings by character

\* A character of an extension string: its lower-case form c, and whether it
\* is written in upper case.
Char(c, up) == [c |-> c, up |-> up]

\* The characters that have an upper-case form.
Letters ==
    {"a", "b", "c", "d", "e", "f", "g", "h", "i", "j", "k", "l", "m",
     "n", "o", "p", "q", "r", "s", "t", "u", "v", "w", "x", "y", "z"}

\* The characters of the names used for extensions: those of the tables of
\* both files, and names that are in no table.
Spelling ==
    [png  |-> <<"p", "n", "g">>,      jpg  |-> <<"j", "p", "g">>,
     jpeg |-> <<"j", "p", "e", "g">>, gif  |-> <<"g", "i", "f">>,
     webp |-> <<"w", "e", "b", "p">>, bmp  |-> <<"b", "m", "p">>,
     svg  |-> <<"s", "v", "g">>,      ico  |-> <<"i", "c", "o">>,
     tiff |-> <<"t", "i", "f", "f">>, tif  |-> <<"t", "i", "f">>,
     pdf  |-> <<"p", "d", "f">>,      docx |-> <<"d", "o", "c", "x">>,
     doc  |-> <<"d", "o", "c">>,      odt  |-> <<"o", "d", "t">>,
     txt  |-> <<"t", "x", "t">>,      rtf  |-> <<"r", "t", "f">>,
     ppt  |-> <<"p", "p", "t">>,      pptx |-> <<"p", "p", "t", "x">>,
     odp  |-> <<"o", "d", "p">>,      xlsx |-> <<"x", "l", "s", "x">>,
     mp3  |-> <<"m", "p", "3">>,      wav  |-> <<"w", "a", "v">>,
     ogg  |-> <<"o", "g", "g">>,      m4a  |-> <<"m", "4", "a">>,
     flac |-> <<"f", "l", "a", "c">>, aac  |-> <<"a", "a", "c">>,
     mp4  |-> <<"m", "p", "4">>,      avi  |-> <<"a", "v", "i">>,
     mov  |-> <<"m", "o", "v">>,      mkv  |-> <<"m", "k", "v">>,
     webm |-> <<"w", "e", "b", "m">>, flv  |-> <<"f", "l", "v">>,
     xyz  |-> <<"x", "y", "z">>,      exe  |-> <<"e", "x", "e">>,
     pn   |-> <<"p", "n">>,           pngs |-> <<"p", "n", "g", "s">>]

\* The string of name e with the characters at the positions of mask in
\* upper case.
Cased(e, mask) ==
    [j \in 1..Len(Spelling[e]) |->
        Char(Spelling[e][j], j \in mask /\ Spelling[e][j] \in Letters)]

\* The extension strings getFileCategory is called with: every name in
\* every letter case, and the empty string.
ExtensionStrings ==
    UNION {{Cased(e, mask) : mask \in SUBSET (1..Len(Spelling[e]))} :
              e \in DOMAIN Spelling} \cup {<<>>}

\* A conversion that leaves the case of every character as it is.
KeepCase(s) == s

\* String.prototype.toLowerCase().
toLowerCase(s) == [j \in 1..Len(s) |-> Char(s[j].c, FALSE)]

\* The name a string spells, character by character and case included; a
\* string that spells none of the names is in no table either.
NoName == "?"

Name(s) ==
    IF \E e \in DOMAIN Spelling : Cased(e, {}) = s
    THEN CHOOSE e \in DOMAIN Spelling : Cased(e, {}) = s
    ELSE NoName

\* getFileCategory of part_001, lines 28-43, on a string in any case.
getFileCategoryOf(ext) == getFileCategory(Name(toLowerCase(ext)))

\* server.js, lines 50-67: the categories in the order of Object.entries.
CONVERSION_TOOLS ==
    <<[category |-> "image",
       extensions |-> {"png", "jpg", "jpeg", "gif", "webp", "bmp", "svg", "ico"}],
      [category |-> "audio",
       extensions |-> {"mp3", "wav", "ogg", "m4a", "flac", "aac"}],
      [category |-> "video",
       extensions |-> {"mp4", "avi", "mov", "mkv", "webm", "flv"}],
      [category |-> "document",
       extensions |-> {"pdf", "docx", "doc", "odt", "txt", "rtf", "pptx", "xlsx"}]>>

\* getFileCategory of server.js, lines 72-79: the first category whose
\* extensions include the lower-cased string, else null.
getFileCategoryTools(extension) ==
    LET lower == Name(toLowerCase(extension))
        hits == {k \in DOMAIN CONVERSION_TOOLS : lower \in CONVERSION_TOOLS[k].extensions}
    IN IF hits = {} THEN Unknown
       ELSE CONVERSION_TOOLS[CHOOSE k \in hits : \A j \in hits : k <= j].category

\* No result yet: the function has not been called.
NotCalled == ""

\* No classification under way.
NoCall == [extension |-> <<>>, multi |-> NotCalled, server |-> NotCalled]

\* ------------------------------------------------------------------ paths

\* A path of the working directory: uploads/<name>, where <name> is
\*   kind "up":   multer's random name of upload b of request a, no extension
\*   kind "out":  <a = timestamp>_<b = random token>_<original basename>
\*   kind "temp": temp_<a = timestamp>
\* followed by "-<idx>" when idx >= 0 and by ".<ext>" when ext # "".
NoIdx == -1

Path(kind, a, b, idx, ext) ==
    [dir |-> "uploads", kind |-> kind, a |-> a, b |-> b, idx |-> idx, ext |-> ext]

\* multer({dest: 'uploads/'}): file.path of the i-th file of request r.
UploadPath(r, i) == Path("up", r, i, NoIdx, "")

\* path.basename(p): the path without its directory.
Basename(p) == [kind |-> p.kind, a |-> p.a, b |-> p.b, idx |-> p.idx, ext |-> p.ext]

\* path.join(dir, `${baseName}.${ext}`) for baseName = the name of p without
\* its extension: the file LibreOffice writes for input p.
WithExt(p, ext) == [p EXCEPT !.ext = ext]

\* <base>-<n>.<ext>: page n of the rasterization to targetPath p.
PagePath(p, n) == [p EXCEPT !.idx = n]

\* No path (a local that has not been assigned).
NoPath == Path("none", 0, 0, NoIdx, "")

\* ------------------------------------------- Array.prototype.sort() on paths

\* The decimal digits of n, most significant first.
RECURSIVE Digits(_)
Digits(n) == IF n < 10 THEN <<n>> ELSE Append(Digits(n \div 10), n % 10)

\* UTF-16 code units: '0'..'9' are 48..57, '.' is 46.
DigitCode(d) == 48 + d
DotCode == 46

\* The code units of a page file's path from the page index on: "<idx>.".
\* The outputs of one rasterization share everything before the index
\* ("uploads/<base>-") and everything after the dot (the extension), so the
\* default sort, which compares strings by code units, is decided here.
PageKey(p) ==
    [k \in 1..Len(Digits(p.idx)) |-> DigitCode(Digits(p.idx)[k])] \o <<DotCode>>

\* s < t as strings compared by code units.
LexLess(s, t) ==
    \E k \in 1..(Len(s) + 1) :
        /\ \A j \in 1..(k - 1) : j <= Len(t) /\ s[j] = t[j]
        /\ \/ k = Len(s) + 1 /\ Len(t) >= k
           \/ k <= Len(s) /\ k <= Len(t) /\ s[k] < t[k]

\* files.sort(): the paths of S in ascending string order.
RECURSIVE SortPaths(_)
SortPaths(S) ==
    IF S = {} THEN <<>>
    ELSE LET m == CHOOSE x \in S :
                      \A y \in S \ {x} : LexLess(PageKey(x), PageKey(y))
         IN <<m>> \o SortPaths(S \ {m})

\* readdirSync(targetDir).filter(f => multiPagePattern.test(f)): the files
\* named <targetBase>-<digits>.<targetExt> that exist in dir.
MultiPageFiles(dir, targetPath) ==
    {f \in dir : /\ f.kind = targetPath.kind
                 /\ f.a = targetPath.a
                 /\ f.b = targetPath.b
                 /\ f.ext = targetPath.ext
                 /\ f.idx >= 0}

\* --------------------------------------------------------------- requests

Range(s) == {s[k] : k \in 1..Len(s)}

\* A request that has not arrived.
IdleRequest ==
    [pc |-> "idle",
     n |-> 0,                  \* files.length
     targetExt |-> "",         \* req.body.targetFormat?.toLowerCase()
     i |-> 0,                  \* the file the loop is at, 1..n
     sourceExt |-> "",
     targetPath |-> NoPath,
     tempPdf |-> NoPath,       \* image -> document: the intermediate PDF
     pdfPath |-> NoPath,       \* document -> image: the rasterizer's input
     tempPdfCreated |-> FALSE,
     outputFiles |-> <<>>,     \* performConversion's local
     allOutputFiles |-> <<>>,
     tempFiles |-> <<>>,
     error |-> "",             \* the message of the error thrown, if any
     responses |-> <<>>,       \* what was written to res, in order
     cleanups |-> 0,           \* runs of the delete-all loop over outputs and inputs
     calls |-> <<>>,           \* execAsync invocations: [file, tool]
     exits |-> <<>>,           \* whether each call that has settled exited with status 0
     exts |-> <<>>,            \* the source extension of each file the loop took
     touched |-> {},           \* paths this request created, renamed, fed to a tool or deleted
     unlinkFailed |-> {}]      \* paths whose fs.unlinkSync threw

\* The three shapes of a response.
JsonResponse(status, message) ==
    [kind |-> "json", status |-> status, error |-> message,
     file |-> NoPath, filename |-> "", entries |-> <<>>]

FileResponse(file) ==
    [kind |-> "file", status |-> 200, error |-> "",
     file |-> file, filename |-> "", entries |-> <<>>]

ZipResponse(files) ==
    [kind |-> "zip", status |-> 200, error |-> "",
     file |-> NoPath, filename |-> "converted_files.zip",
     entries |-> [k \in 1..Len(files) |-> Basename(files[k])]]

SourcePath(r) == UploadPath(r, req[r].i)

\* ------------------------------------------------- server.js: paths, locals

\* A path of server.js's uploads directory: <timestamp>-<token>-<stem>
\* followed by the extensions exts of the original name, each an extension
\* string after a dot; pre holds what was inserted before the whole path.
SinglePath(exts) == [dir |-> "uploads", kind |-> "single", pre |-> <<>>, exts |-> exts]

\* null (a path local that has not been assigned).
NoSinglePath == [dir |-> "", kind |-> "none", pre |-> <<>>, exts |-> <<>>]

\* path.extname(p) without its dot: the last extension, or the empty string.
extname(p) == IF Len(p.exts) = 0 THEN <<>> ELSE p.exts[Len(p.exts)]

\* p.replace(`.${old}`, `.${new}`), and p.replace('', `.${new}`) when the
\* path has no extension: String.prototype.replace with a string pattern
\* replaces the first occurrence, and the empty pattern matches at index 0.
ReplaceFirst(p, old, new) ==
    IF Len(p.exts) = 0
    THEN [p EXCEPT !.pre = <<new>> \o @]
    ELSE LET k == CHOOSE j \in 1..Len(p.exts) :
                     /\ p.exts[j] = old
                     /\ \A i \in 1..(j - 1) : p.exts[i] # old
         IN [p EXCEPT !.exts[k] = new]

\* path.join(outputDir, `${path.basename(p, path.extname(p))}.${ext}`): the
\* file LibreOffice writes for input p.
GeneratedFile(p, ext) == [p EXCEPT !.exts = SubSeq(@, 1, Len(@) - 1) \o <<ext>>]

\* The extensions of the original names of the files uploaded to server.js
\* and the targetFormat values sent with them (the empty string: a missing
\* field).
Lower(e) == Cased(e, {})
Upper(e) == Cased(e, 1..Len(Spelling[e]))

SingleNames ==
    {<<>>, <<Lower("png")>>, <<Upper("png")>>, <<Lower("txt")>>, <<Lower("pdf")>>,
     <<Lower("mp3")>>, <<Lower("mp4")>>, <<Lower("xyz")>>,
     <<Lower("txt"), Lower("txt")>>}

SingleTargets ==
    {<<>>, Lower("jpg"), Lower("png"), Lower("pdf"), Upper("pdf"), Lower("txt"),
     Lower("docx"), Lower("odt"), Lower("wav"), Lower("mp4"), Lower("xyz")}

IdleSingle ==
    [pc |-> "idle",
     inputPath |-> NoSinglePath,   \* let inputPath = null
     outputPath |-> NoSinglePath,  \* let outputPath = null
     targetFormat |-> <<>>,
     derived |-> NoSinglePath,     \* convertFile's local outputPath
     error |-> "",
     responses |-> <<>>]

\* The load of a specification: the requests that arrive, the number of
\* files a request carries at most, and whether deletions may fail.
InitWith(reqs, files, faults) ==
    /\ now = 0
    /\ rnd = 0
    /\ fs = {}
    /\ req = [r \in Requests |-> IdleRequest]
    /\ load = [reqs |-> reqs, files |-> files, faults |-> faults]
    /\ cls = NoCall
    /\ single = IdleSingle

Init == InitWith({1}, MaxFiles, FALSE)

InitConc == InitWith(Requests, ConcFiles, FALSE)

InitFaults == InitWith({1}, FaultFiles, TRUE)

\* The ways one pass of fs.unlinkSync over paths may go: every call
\* succeeds or, where deletions may fail, the call on one path throws.
UnlinkFailures(paths) ==
    IF load.faults THEN {{}} \cup {{p} : p \in paths} ELSE {{}}

\* The handler's promise is rejected outside its try block.  Express 4
\* leaves the rejection unhandled and nothing is written to res; Express 5
\* passes it to the error middleware (lines 306-309).
Rejected(q, handled) ==
    [q EXCEPT !.pc = "rejected",
              !.responses = IF handled
                            THEN Append(@, JsonResponse(500, "Internal server error"))
                            ELSE @]

\* The values Date.now() may return: the time of the last reading or,
\* the clock having advanced, the next millisecond.
DateNow == {t \in {now, now + 1} : t <= MaxClock}

\* app.post('/convert', upload.array('files', 4), ...): multer has stored the
\* n files; the handler validates the input.
Arrive(r) ==
    /\ r \in load.reqs
    /\ req[r].pc = "idle"
    /\ \E n \in 0..Min(load.files, UploadLimit), t \in TargetFormats :
         LET ups == {UploadPath(r, k) : k \in 1..n}
             q == [req[r] EXCEPT !.n = n, !.targetExt = t]
         IN IF n = 0
            THEN /\ fs' = fs
                 /\ req' = [req EXCEPT ![r] =
                       [q EXCEPT !.pc = "done",
                                 !.responses = <<JsonResponse(400, "No files uploaded")>>]]
            ELSE IF t = ""
            THEN \E bad \in UnlinkFailures(ups), handled \in BOOLEAN :
                   IF bad = {}
                   THEN /\ fs' = fs \ ups
                        /\ req' = [req EXCEPT ![r] =
                              [q EXCEPT !.pc = "done",
                                        !.touched = ups,
                                        !.responses =
                                            <<JsonResponse(400, "Target format is required")>>]]
                   ELSE LET k == CHOOSE j \in 1..n : UploadPath(r, j) \in bad
                        IN /\ fs' = (fs \cup ups) \ {UploadPath(r, j) : j \in 1..(k - 1)}
                           /\ req' = [req EXCEPT ![r] =
                                 Rejected([q EXCEPT !.touched = ups, !.unlinkFailed = bad],
                                          handled)]
            ELSE /\ fs' = fs \cup ups
                 /\ req' = [req EXCEPT ![r] = [q EXCEPT !.pc = "loop", !.touched = ups]]
    /\ UNCHANGED <<now, rnd, load>>

\* ------------------------------------------------------- performConversion

\* A loop that records the error of a file and goes on with the next file.
ThrowContinue(q, message) == [q EXCEPT !.pc = "loop", !.error = message]

\* throw new Error(message), inside performConversion: its catch rethrows the
\* message and the handler's await raises it into the handler's catch.
Throw(q, message) == [q EXCEPT !.pc = "catch", !.error = message]

\* execAsync(command, ...) is called for the current file: the handler
\* suspends at pc until the tool exits.
Exec(q, tool, pc, paths) ==
    [q EXCEPT !.pc = pc,
              !.calls = Append(@, [file |-> q.i, tool |-> tool]),
              !.touched = @ \cup paths]

\* Dispatch with the final else branch replaced by a transcoder call: every
\* pair of known categories is attempted.
DispatchAnyPair(q, src, t) ==
    LET sourceCat == getFileCategory(q.sourceExt)
        targetCat == getFileCategory(q.targetExt)
    IN IF sourceCat = Unknown \/ targetCat = Unknown
       THEN Throw(q, "Unsupported format")
       ELSE IF sourceCat = "image" /\ targetCat \in {"image", "document"}
       THEN Exec(q, "magick", "magick", {src, q.targetPath})
       ELSE IF sourceCat = "document" /\ targetCat = "document"
       THEN Exec(q, "libreoffice", "libreoffice", {src, WithExt(src, q.targetExt)})
       ELSE Exec(q, "ffmpeg", "ffmpeg", {src, q.targetPath})

\* Dispatch without the special case of the pdf target: every image ->
\* document conversion goes through temp_<t>.pdf and the document converter.
DispatchPdfViaTemp(q, src, t) ==
    LET sourceCat == getFileCategory(q.sourceExt)
        targetCat == getFileCategory(q.targetExt)
    IN IF sourceCat = "image" /\ targetCat = "document"
       THEN LET tempPdf == Path("temp", t, 0, NoIdx, "pdf")
            IN Exec([q EXCEPT !.tempPdf = tempPdf], "magick", "magickTemp", {src, tempPdf})
       ELSE DispatchAnyPair(q, src, t)

\* Lines 47-166 up to the first await: the category check and the choice of
\* the branch.  q holds the current file's sourceExt and targetPath; src is
\* its sourcePath and t the time Date.now() returns for temp_<t>.pdf.
Dispatch(q, src, t) ==
    LET sourceCat == getFileCategory(q.sourceExt)
        targetCat == getFileCategory(q.targetExt)
    IN IF sourceCat = Unknown \/ targetCat = Unknown
       THEN Throw(q, "Unsupported format")
       ELSE IF sourceCat = targetCat
       THEN IF sourceCat = "image"
            THEN Exec(q, "magick", "magick", {src, q.targetPath})
            ELSE IF sourceCat = "document"
            THEN Exec(q, "libreoffice", "libreoffice", {src, WithExt(src, q.targetExt)})
            ELSE Exec(q, "ffmpeg", "ffmpeg", {src, q.targetPath})
       ELSE IF sourceCat = "image" /\ targetCat = "document"
       THEN IF q.targetExt = "pdf"
            THEN Exec(q, "magick", "magick", {src, q.targetPath})
            ELSE LET tempPdf == Path("temp", t, 0, NoIdx, "pdf")
                 IN Exec([q EXCEPT !.tempPdf = tempPdf],
                         "magick", "magickTemp", {src, tempPdf})
       ELSE IF sourceCat = "document" /\ targetCat = "image"
       THEN IF q.sourceExt # "pdf"
            THEN Exec(q, "libreoffice", "docToPdf", {src, WithExt(src, "pdf")})
            ELSE Exec([q EXCEPT !.pdfPath = src],
                      "magick", "rasterize", {src, q.targetPath})
       ELSE Throw(q, "Conversion is not supported")

\* Math.random().toString(36).substr(2, 9): the token of the k-th draw.  The
\* tokens of two draws are taken to differ.
RandomToken(k) == k

\* for (const file of files): the loop takes its next file, names its
\* target and calls performConversion, which runs to its first await.
\* The two Date.now() readings of this run (lines 218 and 100) return the
\* same millisecond t.
LoopNext(r) ==
    /\ req[r].pc = "loop"
    /\ req[r].i < req[r].n
    /\ \E sourceExt \in SourceExts, t \in DateNow :
         LET targetPath == Path("out", t, RandomToken(rnd + 1), NoIdx, req[r].targetExt)
             q == [req[r] EXCEPT !.i = @ + 1,
                                 !.sourceExt = sourceExt,
                                 !.exts = Append(@, sourceExt),
                                 !.targetPath = targetPath,
                                 !.tempPdf = NoPath,
                                 !.pdfPath = NoPath,
                                 !.tempPdfCreated = FALSE,
                                 !.outputFiles = <<>>]
         IN /\ req' = [req EXCEPT ![r] = Dispatch(q, UploadPath(r, q.i), t)]
            /\ now' = t
    /\ rnd' = rnd + 1
    /\ UNCHANGED <<fs, load>>

\* execAsync settles: the tool of the last call exited with status 0 (ok) or
\* failed (a non-zero exit or the timeout).
Exited(q, ok) == [q EXCEPT !.exits = Append(@, ok)]

\* What a tool leaves behind: the files of out, or nothing.
Written(wrote, out) == IF wrote THEN out ELSE {}

\* magick "<sourcePath>" "<targetPath>" exits (image -> image, image -> pdf).
Magick(r) ==
    /\ req[r].pc = "magick"
    /\ \E ok \in BOOLEAN, wrote \in BOOLEAN :
         LET q == Exited(req[r], ok)
         IN /\ fs' = fs \cup Written(wrote, {q.targetPath})
            /\ req' = [req EXCEPT ![r] =
                  IF ok
                  THEN [q EXCEPT !.pc = "verify", !.outputFiles = <<q.targetPath>>]
                  ELSE Throw(q, "Command failed")]
    /\ UNCHANGED <<now, rnd, load>>

\* ffmpeg -i "<sourcePath>" -y "<targetPath>" exits (audio, video).
Ffmpeg(r) ==
    /\ req[r].pc = "ffmpeg"
    /\ \E ok \in BOOLEAN, wrote \in BOOLEAN :
         LET q == Exited(req[r], ok)
         IN /\ fs' = fs \cup Written(wrote, {q.targetPath})
            /\ req' = [req EXCEPT ![r] =
                  IF ok
                  THEN [q EXCEPT !.pc = "verify", !.outputFiles = <<q.targetPath>>]
                  ELSE Throw(q, "Command failed")]
    /\ UNCHANGED <<now, rnd, load>>

\* A copy in place of the rename: the file stays under its old name too.
RenameCopy(dir, from, to) == dir \cup {to}

\* fs.renameSync(from, to) in directory dir.
Rename(dir, from, to) == (dir \ {from}) \cup {to}

\* libreoffice --convert-to <targetExt> "<sourcePath>" exits (document ->
\* document): its output, named after the source, is renamed to targetPath.
LibreOffice(r) ==
    /\ req[r].pc = "libreoffice"
    /\ \E ok \in BOOLEAN, wrote \in BOOLEAN :
         LET q == Exited(req[r], ok)
             expectedOutput == WithExt(SourcePath(r), q.targetExt)
             dir == fs \cup Written(wrote, {expectedOutput})
         IN IF ~ok
            THEN /\ fs' = dir
                 /\ req' = [req EXCEPT ![r] = Throw(q, "Command failed")]
            ELSE IF expectedOutput \in dir
            THEN /\ fs' = Rename(dir, expectedOutput, q.targetPath)
                 /\ req' = [req EXCEPT ![r] =
                       [q EXCEPT !.pc = "verify",
                                 !.outputFiles = <<q.targetPath>>,
                                 !.touched = @ \cup {q.targetPath}]]
            ELSE /\ fs' = dir
                 /\ req' = [req EXCEPT ![r] = Throw(q, "LibreOffice conversion failed")]
    /\ UNCHANGED <<now, rnd, load>>

\* magick "<sourcePath>" "<tempPdf>" exits (image -> document, step 1); on
\* success libreoffice is started on tempPdf.
MagickTemp(r) ==
    /\ req[r].pc = "magickTemp"
    /\ \E ok \in BOOLEAN, wrote \in BOOLEAN :
         LET q == Exited(req[r], ok)
         IN /\ fs' = fs \cup Written(wrote, {q.tempPdf})
            /\ req' = [req EXCEPT ![r] =
                  IF ok
                  THEN Exec(q, "libreoffice", "libreofficeTemp",
                            {q.tempPdf, WithExt(q.tempPdf, q.targetExt)})
                  ELSE Throw(q, "Command failed")]
    /\ UNCHANGED <<now, rnd, load>>

\* libreoffice --convert-to <targetExt> "<tempPdf>" exits (image ->
\* document, step 2): lines 106-114.
LibreOfficeTemp(r) ==
    /\ req[r].pc = "libreofficeTemp"
    /\ \E ok \in BOOLEAN, wrote \in BOOLEAN :
         LET q == Exited(req[r], ok)
             expectedOutput == WithExt(q.tempPdf, q.targetExt)
             dir == fs \cup Written(wrote, {expectedOutput})
             found == expectedOutput \in dir
             renamed == IF found THEN Rename(dir, expectedOutput, q.targetPath) ELSE dir
         IN IF ~ok
            THEN /\ fs' = dir
                 /\ req' = [req EXCEPT ![r] = Throw(q, "Command failed")]
            ELSE /\ fs' = renamed \ {q.tempPdf}
                 /\ req' = [req EXCEPT ![r] =
                       [q EXCEPT !.pc = "verify",
                                 !.outputFiles = IF found THEN <<q.targetPath>> ELSE <<>>,
                                 !.touched = @ \cup (IF found THEN {q.targetPath} ELSE {})]]
    /\ UNCHANGED <<now, rnd, load>>

\* The document converter's exit followed by the rasterizer whether or not
\* the intermediate PDF exists.
DocToPdfUnchecked(r) ==
    /\ req[r].pc = "docToPdf"
    /\ \E ok \in BOOLEAN, wrote \in BOOLEAN :
         LET q == Exited(req[r], ok)
             pdfPath == WithExt(SourcePath(r), "pdf")
             p == [q EXCEPT !.pdfPath = pdfPath, !.tempPdfCreated = TRUE]
         IN /\ fs' = fs \cup Written(wrote, {pdfPath})
            /\ req' = [req EXCEPT ![r] =
                  IF ~ok THEN Throw(q, "Command failed")
                  ELSE Exec(p, "magick", "rasterize", {pdfPath, q.targetPath})]
    /\ UNCHANGED <<now, rnd, load>>

\* libreoffice --convert-to pdf "<sourcePath>" exits (document -> image, a
\* source that is no PDF): lines 128-143.
DocToPdf(r) ==
    /\ req[r].pc = "docToPdf"
    /\ \E ok \in BOOLEAN, wrote \in BOOLEAN :
         LET q == Exited(req[r], ok)
             pdfPath == WithExt(SourcePath(r), "pdf")
             dir == fs \cup Written(wrote, {pdfPath})
             p == [q EXCEPT !.pdfPath = pdfPath, !.tempPdfCreated = TRUE]
         IN /\ fs' = dir
            /\ req' = [req EXCEPT ![r] =
                  IF ~ok THEN Throw(q, "Command failed")
                  ELSE IF pdfPath \notin dir THEN Throw(p, "PDF conversion failed")
                  ELSE Exec(p, "magick", "rasterize", {pdfPath, q.targetPath})]
    /\ UNCHANGED <<now, rnd, load>>

\* The page counts a rasterization may produce: no file, the single file
\* targetPath, or the page files <base>-0 .. <base>-(n-1).
PageCounts == (0..2) \cup {MaxPages}

Pages(targetPath, n) ==
    IF n = 0 THEN {}
    ELSE IF n = 1 THEN {targetPath}
    ELSE {PagePath(targetPath, k) : k \in 0..(n - 1)}

\* The PDF that was rasterized is removed whether or not it was created by
\* the conversion.
UnlinkPdfAlways(q, dir) == q.pdfPath \in dir

\* Lines 160-162: if (tempPdfCreated && fs.existsSync(pdfPath)).
UnlinkPdf(q, dir) == q.tempPdfCreated /\ q.pdfPath \in dir

\* The outputs with the target path always added to the page files.
CollectedWithTarget(files, targetPath) == files \o <<targetPath>>

\* Lines 152-155: the page files when there are any, else the target path.
CollectedOutputs(files, targetPath) ==
    IF Len(files) > 0 THEN files ELSE <<targetPath>>

\* magick -density 300 "<pdfPath>" "<targetPath>" exits: lines 143-162.
Rasterize(r) ==
    /\ req[r].pc = "rasterize"
    /\ \E ok \in BOOLEAN, n \in PageCounts :
         LET q == [Exited(req[r], ok) EXCEPT !.touched = @ \cup Pages(req[r].targetPath, n)]
             dir == fs \cup Pages(q.targetPath, n)
             files == SortPaths(MultiPageFiles(dir, q.targetPath))
             unlinkPdf == UnlinkPdf(q, dir)
         IN IF ~ok
            THEN /\ fs' = dir
                 /\ req' = [req EXCEPT ![r] = Throw(q, "Command failed")]
            ELSE IF Len(files) = 0 /\ q.targetPath \notin dir
            THEN /\ fs' = dir
                 /\ req' = [req EXCEPT ![r] = Throw(q, "No output images generated")]
            ELSE /\ fs' = IF unlinkPdf THEN dir \ {q.pdfPath} ELSE dir
                 /\ req' = [req EXCEPT ![r] =
                       [q EXCEPT !.pc = "verify",
                                 !.outputFiles = CollectedOutputs(files, q.targetPath),
                                 !.touched = @ \cup Range(files)]]
    /\ UNCHANGED <<now, rnd, load>>

\* Lines 169-179, then the handler's lines 221-222: the outputs are checked
\* and collected, and the source is recorded for cleanup.
Verify(r) ==
    /\ req[r].pc = "verify"
    /\ LET q == req[r]
       IN req' = [req EXCEPT ![r] =
             IF Len(q.outputFiles) = 0
             THEN Throw(q, "No output files were generated")
             ELSE IF \E k \in 1..Len(q.outputFiles) : q.outputFiles[k] \notin fs
             THEN Throw(q, "Expected output file not found")
             ELSE [q EXCEPT !.pc = "loop",
                            !.allOutputFiles = @ \o q.outputFiles,
                            !.tempFiles = Append(@, SourcePath(r))]]
    /\ UNCHANGED <<now, rnd, fs, load>>

\* ---------------------------------------------------------------- responses

\* [...allOutputFiles, ...tempFiles].forEach(f => { if (fs.existsSync(f))
\* fs.unlinkSync(f) }): the paths the cleanup of request q deletes, and the
\* directory after it.
CleanupFiles(q) == Range(q.allOutputFiles) \cup Range(q.tempFiles)

Cleanup(dir, q) == dir \ CleanupFiles(q)

Cleaned(q) == [q EXCEPT !.cleanups = @ + 1, !.touched = @ \cup CleanupFiles(q)]

\* catch (e) { console.error('Cleanup error:', e) }: the unlinkSync of the
\* paths of bad threw; they stay and the loop goes on.
Undeleted(q, bad) == [q EXCEPT !.unlinkFailed = @ \cup bad]

\* A handler that deletes the request's files as soon as the response has
\* been started.
RespondEager(r) ==
    /\ req[r].pc = "loop"
    /\ req[r].i = req[r].n
    /\ LET q == Cleaned(req[r])
       IN req' = [req EXCEPT ![r] =
             IF Len(q.allOutputFiles) = 1
             THEN [q EXCEPT !.pc = "download",
                            !.responses = Append(@, FileResponse(q.allOutputFiles[1]))]
             ELSE [q EXCEPT !.pc = "finalize",
                            !.responses = Append(@, ZipResponse(q.allOutputFiles))]]
    /\ fs' = Cleanup(fs, req[r])
    /\ UNCHANGED <<now, rnd, load>>

\* Lines 228-262: every file is converted; the response is started.
Respond(r) ==
    /\ req[r].pc = "loop"
    /\ req[r].i = req[r].n
    /\ LET q == req[r]
       IN req' = [req EXCEPT ![r] =
             IF Len(q.allOutputFiles) = 1
             THEN [q EXCEPT !.pc = "download",
                            !.responses = Append(@, FileResponse(q.allOutputFiles[1]))]
             ELSE [q EXCEPT !.pc = "finalize",
                            !.responses = Append(@, ZipResponse(q.allOutputFiles))]]
    /\ UNCHANGED <<now, rnd, fs, load>>

\* res.download's callback: the file is sent; cleanup.
DownloadDone(r) ==
    /\ req[r].pc = "download"
    /\ \E bad \in UnlinkFailures(CleanupFiles(req[r]) \cap fs) :
         /\ fs' = Cleanup(fs, req[r]) \cup bad
         /\ req' = [req EXCEPT ![r] =
               [Undeleted(Cleaned(req[r]), bad) EXCEPT !.pc = "done"]]
    /\ UNCHANGED <<now, rnd, load>>

\* await archive.finalize() resolves and only then archive.on('finish', ...)
\* is registered.  The archive emits 'finish' once; whether that was before
\* the listener was registered (the listener then never runs) is decided by
\* the streams' timing, not by the handler.
FinalizeResolved(r) ==
    /\ req[r].pc = "finalize"
    /\ \E emitted \in BOOLEAN :
         req' = [req EXCEPT ![r].pc = IF emitted THEN "done" ELSE "finish"]
    /\ UNCHANGED <<now, rnd, fs, load>>

\* The archive emits 'error' while it is written (an entry cannot be read):
\* the listener of lines 250-253 rethrows it from inside the emitter, outside
\* the handler's try block, and the uncaught exception ends the process.
ArchiveError(r) ==
    /\ req[r].pc = "finalize"
    /\ req' = [req EXCEPT ![r].pc = "crashed"]
    /\ UNCHANGED <<now, rnd, fs, load>>

\* The archive's 'finish' listener runs: cleanup.
FinishEvent(r) ==
    /\ req[r].pc = "finish"
    /\ \E bad \in UnlinkFailures(CleanupFiles(req[r]) \cap fs) :
         /\ fs' = Cleanup(fs, req[r]) \cup bad
         /\ req' = [req EXCEPT ![r] =
               [Undeleted(Cleaned(req[r]), bad) EXCEPT !.pc = "done"]]
    /\ UNCHANGED <<now, rnd, load>>

\* Catch answering with what was converted before the failure.
CatchPartial(r) ==
    /\ req[r].pc = "catch"
    /\ fs' = fs
    /\ req' = [req EXCEPT ![r] =
          [req[r] EXCEPT !.pc = "done",
                         !.responses = Append(@,
                             IF Len(req[r].allOutputFiles) > 0
                             THEN ZipResponse(req[r].allOutputFiles)
                             ELSE JsonResponse(500, req[r].error))]]
    /\ UNCHANGED <<now, rnd, load>>

\* Lines 276-291: cleanup, then the error response.
Catch(r) ==
    /\ req[r].pc = "catch"
    /\ \E bad \in UnlinkFailures(CleanupFiles(req[r]) \cap fs) :
         /\ fs' = Cleanup(fs, req[r]) \cup bad
         /\ req' = [req EXCEPT ![r] =
               [Undeleted(Cleaned(req[r]), bad) EXCEPT
                    !.pc = "done",
                    !.responses = Append(@, JsonResponse(500, req[r].error))]]
    /\ UNCHANGED <<now, rnd, load>>

\* ------------------------------------------------------------ specification

\* The process is up: no uncaught exception has ended it.
Running == \A r \in Requests : req[r].pc # "crashed"

Next ==
    /\ Running
    /\ UNCHANGED <<cls, single>>
    /\ \E r \in Requests :
         \/ Arrive(r)
         \/ LoopNext(r)
         \/ Magick(r)
         \/ Ffmpeg(r)
         \/ LibreOffice(r)
         \/ MagickTemp(r)
         \/ LibreOfficeTemp(r)
         \/ DocToPdf(r)
         \/ Rasterize(r)
         \/ Verify(r)
         \/ Respond(r)
         \/ DownloadDone(r)
         \/ FinalizeResolved(r)
         \/ ArchiveError(r)
         \/ FinishEvent(r)
         \/ Catch(r)

\* One request at a time.
Spec == Init /\ [][Next]_vars

\* Two requests processed concurrently.
SpecConc == InitConc /\ [][Next]_vars

\* One request at a time, where a deletion may fail.
SpecFaults == InitFaults /\ [][Next]_vars

\* ------------------------------------------------------- classification

\* An extension string is given; no request arrives.
InitClassify ==
    /\ now = 0
    /\ rnd = 0
    /\ fs = {}
    /\ req = [r \in Requests |-> IdleRequest]
    /\ load = [reqs |-> {}, files |-> 0, faults |-> FALSE]
    /\ cls \in [extension : ExtensionStrings, multi : {NotCalled}, server : {NotCalled}]
    /\ single = IdleSingle

\* getFileCategory of part_001 is called with the string.
ClassifyMulti ==
    /\ cls.multi = NotCalled
    /\ cls' = [cls EXCEPT !.multi = getFileCategoryOf(cls.extension)]
    /\ UNCHANGED <<now, rnd, fs, req, load, single>>

\* getFileCategory of server.js is called with the string.
ClassifyServer ==
    /\ cls.server = NotCalled
    /\ cls' = [cls EXCEPT !.server = getFileCategoryTools(cls.extension)]
    /\ UNCHANGED <<now, rnd, fs, req, load, single>>

NextClassify == ClassifyMulti \/ ClassifyServer

SpecClassify == InitClassify /\ [][NextClassify]_vars

\* ------------------------------------------- server.js: single-file handler

InitSingle ==
    /\ now = 0
    /\ rnd = 0
    /\ fs = {}
    /\ req = [r \in Requests |-> IdleRequest]
    /\ load = [reqs |-> {}, files |-> 0, faults |-> FALSE]
    /\ cls = NoCall
    /\ single = IdleSingle

\* An exception reaches the handler's catch (line 277); outputPath keeps
\* the value it had.
SingleThrow(s, message) == [s EXCEPT !.pc = "catch", !.error = message]

\* convertDocument, lines 133-183, up to its first await.
convertDocument(s, inputExt) ==
    IF inputExt = s.targetFormat
    THEN [s EXCEPT !.pc = "copyFile"]
    ELSE IF s.targetFormat \in {Lower("pdf"), Lower("docx"), Lower("txt")}
    THEN [s EXCEPT !.pc = "libreoffice"]
    ELSE SingleThrow(s, "Document conversion failed: Unsupported document conversion")

\* convertFile, lines 191-221, up to the first await of the converter it
\* calls.
convertFile(s) ==
    LET inputExt == toLowerCase(extname(s.inputPath))
        outputPath == ReplaceFirst(s.inputPath, extname(s.inputPath), s.targetFormat)
        sourceCategory == getFileCategoryTools(inputExt)
        targetCategory == getFileCategoryTools(s.targetFormat)
        d == [s EXCEPT !.derived = outputPath]
    IN IF sourceCategory = Unknown \/ targetCategory = Unknown
       THEN SingleThrow(d, "Unsupported file format")
       ELSE IF sourceCategory # targetCategory
       THEN SingleThrow(d, "Cannot convert")
       ELSE IF sourceCategory = "image" THEN [d EXCEPT !.pc = "convert"]
       ELSE IF sourceCategory \in {"audio", "video"} THEN [d EXCEPT !.pc = "ffmpeg"]
       ELSE convertDocument(d, inputExt)

\* Lines 239-259: the request arrives with or without a file and a
\* targetFormat; convertFile is called and runs to its first await.
SingleArrive ==
    /\ single.pc = "idle"
    /\ \E hasFile \in BOOLEAN, exts \in SingleNames, t \in SingleTargets :
         IF ~hasFile
         THEN /\ fs' = fs
              /\ single' = [single EXCEPT
                    !.pc = "done",
                    !.responses = <<JsonResponse(400, "No file uploaded")>>]
         ELSE IF t = <<>>
         THEN /\ fs' = fs \ {SinglePath(exts)}
              /\ single' = [single EXCEPT
                    !.pc = "done",
                    !.responses = <<JsonResponse(400, "Target format not specified")>>]
         ELSE /\ fs' = fs \cup {SinglePath(exts)}
              /\ single' = convertFile([single EXCEPT !.inputPath = SinglePath(exts),
                                                      !.targetFormat = t])
    /\ UNCHANGED <<now, rnd, req, load, cls>>

\* A converter returned outputPath to the handler (line 259), which goes on
\* to fs.stat.
SingleReturned(s) == [s EXCEPT !.pc = "stat", !.outputPath = s.derived]

\* convert "<inputPath>" "<outputPath>" exits: convertImage, lines 84-92.
convertImage ==
    /\ single.pc = "convert"
    /\ \E ok \in BOOLEAN, wrote \in BOOLEAN :
         /\ fs' = fs \cup Written(wrote, {single.derived})
         /\ single' = IF ok THEN SingleReturned(single)
                       ELSE SingleThrow(single, "Image conversion failed")
    /\ UNCHANGED <<now, rnd, req, load, cls>>

\* ffmpeg -i "<inputPath>" ... "<outputPath>" -y exits: convertMedia, lines
\* 97-128.
convertMedia ==
    /\ single.pc = "ffmpeg"
    /\ \E ok \in BOOLEAN, wrote \in BOOLEAN :
         /\ fs' = fs \cup Written(wrote, {single.derived})
         /\ single' = IF ok THEN SingleReturned(single)
                       ELSE SingleThrow(single, "Media conversion failed")
    /\ UNCHANGED <<now, rnd, req, load, cls>>

\* fs.copyFile(inputPath, outputPath) settles: lines 139-143.
copyFile ==
    /\ single.pc = "copyFile"
    /\ \E ok \in BOOLEAN :
         /\ fs' = fs \cup {single.derived}
         /\ single' = IF ok THEN SingleReturned(single)
                       ELSE SingleThrow(single, "Document conversion failed")
    /\ UNCHANGED <<now, rnd, req, load, cls>>

\* libreoffice --convert-to <targetFormat> "<inputPath>" exits, and the
\* file it generated is renamed to outputPath when the names differ: lines
\* 146-176.
SingleLibreOffice ==
    /\ single.pc = "libreoffice"
    /\ \E ok \in BOOLEAN, wrote \in BOOLEAN :
         LET generatedFile == GeneratedFile(single.inputPath, single.targetFormat)
             dir == fs \cup Written(wrote, {generatedFile})
         IN IF ~ok
            THEN /\ fs' = dir
                 /\ single' = SingleThrow(single, "Document conversion failed")
            ELSE IF generatedFile = single.derived
            THEN /\ fs' = dir
                 /\ single' = SingleReturned(single)
            ELSE IF generatedFile \in dir
            THEN /\ fs' = Rename(dir, generatedFile, single.derived)
                 /\ single' = SingleReturned(single)
            ELSE /\ fs' = dir
                 /\ single' = SingleThrow(single, "Document conversion failed: ENOENT")
    /\ UNCHANGED <<now, rnd, req, load, cls>>

\* await fs.stat(outputPath), lines 262-265, then res.download is started.
SingleStat ==
    /\ single.pc = "stat"
    /\ single' = IF single.outputPath \notin fs
                  THEN SingleThrow(single, "ENOENT")
                  ELSE [single EXCEPT !.pc = "download",
                                      !.responses = Append(@, FileResponse(single.outputPath))]
    /\ UNCHANGED <<now, rnd, fs, req, load, cls>>

\* res.download's callback, lines 268-275: cleanupFiles(inputPath, outputPath).
SingleDownloadDone ==
    /\ single.pc = "download"
    /\ fs' = fs \ {single.inputPath, single.outputPath}
    /\ single' = [single EXCEPT !.pc = "done"]
    /\ UNCHANGED <<now, rnd, req, load, cls>>

\* The catch branch, lines 277-289: inputPath and outputPath are deleted
\* when they are set, then the 500 response is written.
SingleCatch ==
    /\ single.pc = "catch"
    /\ fs' = fs \ ((IF single.inputPath # NoSinglePath THEN {single.inputPath} ELSE {})
                   \cup (IF single.outputPath # NoSinglePath THEN {single.outputPath} ELSE {}))
    /\ single' = [single EXCEPT !.pc = "done",
                                 !.responses = Append(@, JsonResponse(500, single.error))]
    /\ UNCHANGED <<now, rnd, req, load, cls>>

NextSingle ==
    \/ SingleArrive
    \/ convertImage
    \/ convertMedia
    \/ copyFile
    \/ SingleLibreOffice
    \/ SingleStat
    \/ SingleDownloadDone
    \/ SingleCatch

SpecSingle == InitSingle /\ [][NextSingle]_vars

\* ------------------------------------------------------------------ claims

\* The uploaded source files of request r.
Uploads(r) == {UploadPath(r, k) : k \in 1..req[r].n}

\* Request r is over: its response is written and no callback of it is left.
Done(r) == req[r].pc = "done"

\* performConversion failed for a file of request r.
Failed(r) == req[r].error # ""

\* Request r ended with the file or the archive sent.
Succeeded(r) ==
    /\ Done(r)
    /\ Len(req[r].responses) > 0
    /\ req[r].responses[Len(req[r].responses)].kind \in {"file", "zip"}

\* C1: when the conversion of file k of a batch fails, then once the error
\* response is written the working directory holds none of the batch's
\* uploaded source files and none of the outputs of files 1..k-1.
C1_NoLeftoverAfterFailure ==
    \A r \in Requests :
        (Done(r) /\ Failed(r)) =>
            (Uploads(r) \cup Range(req[r].allOutputFiles)) \cap fs = {}

\* C2: when performConversion fails for a file of the batch, the request is
\* answered with an error JSON only: no file and no archive is sent, also
\* when earlier files of the batch were converted.
C2_ErrorResponseOnly ==
    \A r \in Requests :
        Failed(r) =>
            /\ \A k \in 1..Len(req[r].responses) : req[r].responses[k].kind = "json"
            /\ Done(r) => req[r].responses = <<JsonResponse(500, req[r].error)>>

\* A batch whose second or later file failed after outputs were collected,
\* answered.
C2_Witness ==
    \E r \in Requests :
        Done(r) /\ Failed(r) /\ req[r].i >= 2 /\ Len(req[r].allOutputFiles) >= 1

\* performConversion has returned or thrown for the current file of r.
Returned(r) == req[r].pc \in {"verify", "catch", "loop", "done"}

\* C3: for an image converted to a document other than PDF, the
\* intermediate temp_<timestamp>.pdf does not exist once performConversion
\* has returned or thrown, whichever step failed.
C3_TempPdfAbsent ==
    \A r \in Requests :
        (req[r].tempPdf # NoPath /\ Returned(r)) => req[r].tempPdf \notin fs

\* C4: the page files <base>-<N>.<ext> a rasterization returns are ordered
\* by ascending numeric index N, for every page count.
C4_NumericPageOrder ==
    \A r \in Requests :
        \A j, k \in 1..Len(req[r].outputFiles) :
            j < k => req[r].outputFiles[j].idx < req[r].outputFiles[k].idx

\* Request r left by one of the three exits that clean up: the file sent,
\* the archive finalized, the error branch.
CleanupExit(r) == Succeeded(r) \/ (Done(r) /\ Failed(r))

\* C5: the cleanup of all outputs and inputs runs exactly once on each exit
\* path (single file sent, archive finalized, error branch): never zero
\* times, never twice.
C5_CleanupExactlyOnce ==
    \A r \in Requests :
        /\ req[r].cleanups <= 1
        /\ CleanupExit(r) => req[r].cleanups = 1

\* C6: after a successful request, in the single-file and in the ZIP shape,
\* every uploaded source and every output is deleted once the response is
\* delivered: a request that is over has left none of them.
C6_DeletedAfterSuccess ==
    \A r \in Requests :
        Succeeded(r) =>
            (Uploads(r) \cup Range(req[r].allOutputFiles)) \cap fs = {}

\* C7: two requests processed concurrently never create, rename, feed to a
\* tool or delete the same path.
C7_DisjointPaths == req[1].touched \cap req[2].touched = {}

\* The client-input errors: no file, no target format, a target format of
\* unknown category.
ClientInputError(q) ==
    \/ q.n = 0
    \/ q.targetExt = ""
    \/ getFileCategory(q.targetExt) = Unknown

\* C8: the handler answers 400 for every client-input error and 500 only
\* for errors that occur while a conversion is executed.
C8_StatusByErrorKind ==
    \A r \in Requests :
        \A k \in 1..Len(req[r].responses) :
            LET res == req[r].responses[k]
            IN res.kind = "json" =>
                   /\ ClientInputError(req[r]) => res.status = 400
                   /\ res.status = 500 => ~ClientInputError(req[r])

\* The pairs of categories performConversion has a strategy for.
SupportedPair(sourceCat, targetCat) ==
    \/ sourceCat = targetCat
    \/ sourceCat = "image" /\ targetCat = "document"
    \/ sourceCat = "document" /\ targetCat = "image"

Unsupported(sourceExt, targetExt) ==
    \/ getFileCategory(sourceExt) = Unknown
    \/ getFileCategory(targetExt) = Unknown
    \/ ~SupportedPair(getFileCategory(sourceExt), getFileCategory(targetExt))

\* C9: performConversion fails without invoking any external tool when the
\* source or the target extension is of unknown category or the pair of
\* categories has no strategy.
C9_UnsupportedNeverAttempted ==
    \A r \in Requests :
        \A k \in 1..Len(req[r].exts) :
            Unsupported(req[r].exts[k], req[r].targetExt) =>
                /\ \A c \in 1..Len(req[r].calls) : req[r].calls[c].file # k
                /\ Failed(r)
                /\ req[r].pc \in {"catch", "done"}

\* An audio file asked as an image, after a first file of the batch that a
\* tool was run for.
C9_Witness ==
    \E r \in Requests :
        /\ req[r].i >= 2
        /\ req[r].exts[req[r].i] = "mp3"
        /\ req[r].targetExt = "jpg"
        /\ Len(req[r].calls) >= 1
        /\ Done(r)

\* Output j comes before output k in upload order and then page order.  The
\* loop draws one token per file, so among the outputs of one request the
\* token orders the files as they were uploaded.
InBatchOrder(p, q) == p.b < q.b \/ (p.b = q.b /\ p.idx < q.idx)

\* C10: when every conversion succeeds, the single output is sent directly
\* if and only if exactly one output was collected; otherwise the response
\* is the archive converted_files.zip with one entry per output, named by
\* the output's basename, in upload order and then page order.
C10_ResponseShape ==
    \A r \in Requests :
        (Len(req[r].responses) > 0 /\ req[r].responses[1].kind # "json") =>
            LET res == req[r].responses[1]
                outs == req[r].allOutputFiles
            IN /\ res.kind = "file" <=> Len(outs) = 1
               /\ res.kind = "file" => res.file = outs[1]
               /\ res.kind # "file" =>
                      /\ res.kind = "zip"
                      /\ res.filename = "converted_files.zip"
                      /\ Len(res.entries) = Len(outs)
                      /\ \A k \in 1..Len(outs) : res.entries[k] = Basename(outs[k])
                      /\ \A j, k \in 1..Len(outs) :
                             j < k => InBatchOrder(outs[j], outs[k])

\* The response that carries the outputs is being written: res.download has
\* not called back, or archive.finalize() has not resolved.
Streaming(r) == req[r].pc \in {"download", "finalize"}

\* C11: no output file of a request is deleted while the response that
\* carries it is still being streamed: while the single-file send or the
\* archive is in progress the cleanup has not run and every output and every
\* upload of the request is still on disk; cleanup has run only in a request
\* whose send completed, whose archive was fully written, or that failed.
C11_NoDeletionWhileStreaming ==
    \A r \in Requests :
        /\ Streaming(r) =>
              /\ req[r].cleanups = 0
              /\ Range(req[r].allOutputFiles) \subseteq fs
              /\ Uploads(r) \subseteq fs
        /\ req[r].cleanups > 0 => Done(r)

\* A ZIP of several outputs is being written.
C11_Witness ==
    \E r \in Requests :
        /\ req[r].pc = "finalize"
        /\ Len(req[r].allOutputFiles) >= 2

\* The current file of request r is a document that is no PDF and the
\* target is an image: performConversion takes lines 117-163 and has the
\* document converter write <source-basename>.pdf next to the source.
DocToImageViaPdf(r) ==
    /\ req[r].i > 0
    /\ getFileCategory(req[r].sourceExt) = "document"
    /\ req[r].sourceExt # "pdf"
    /\ getFileCategory(req[r].targetExt) = "image"

\* C12: for a document source that is no PDF, converted to an image target,
\* the intermediate PDF written by the document converter is not on disk
\* once performConversion has returned or thrown, whether rasterization
\* succeeded, failed, timed out or produced no image.
C12_IntermediatePdfAbsent ==
    \A r \in Requests :
        (DocToImageViaPdf(r) /\ Returned(r)) =>
            WithExt(SourcePath(r), "pdf") \notin fs

\* The current file of request r and the target are both documents:
\* performConversion takes lines 66-82.
DocToDoc(r) ==
    /\ req[r].i > 0
    /\ getFileCategory(req[r].sourceExt) = "document"
    /\ getFileCategory(req[r].targetExt) = "document"

\* The last tool call of request r has exited with status 0.
LastExitOk(r) ==
    /\ Len(req[r].exits) > 0
    /\ Len(req[r].exits) = Len(req[r].calls)
    /\ req[r].exits[Len(req[r].exits)]

\* C13: for a document-to-document conversion whose converter exited
\* successfully, performConversion either succeeds with exactly one output,
\* at the requested target path, the converter's self-named file
\* <source-basename>.<targetExt> being gone; or, the self-named file being
\* absent, it fails with 'LibreOffice conversion failed' and returns no
\* output.
C13_DocumentRename ==
    \A r \in Requests :
        LET q == req[r]
            selfNamed == WithExt(SourcePath(r), q.targetExt)
        IN (DocToDoc(r) /\ q.pc \in {"verify", "loop", "catch"} /\ LastExitOk(r)) =>
              IF q.error = ""
              THEN /\ q.outputFiles = <<q.targetPath>>
                   /\ q.targetPath \in fs
                   /\ selfNamed \notin fs
              ELSE /\ q.error = "LibreOffice conversion failed"
                   /\ q.outputFiles = <<>>
                   /\ selfNamed \notin fs
                   /\ q.targetPath \notin fs
                   /\ q.targetPath \notin Range(q.allOutputFiles)

\* A first document was converted and renamed; for the second the converter
\* exited with status 0 without leaving its self-named file.
C13_Witness ==
    \E r \in Requests :
        /\ DocToDoc(r)
        /\ req[r].pc = "catch"
        /\ req[r].i = 2
        /\ LastExitOk(r)
        /\ req[r].error = "LibreOffice conversion failed"
        /\ Len(req[r].allOutputFiles) = 1
        /\ req[r].allOutputFiles[1] \in fs

\* The current file of request r is a document and the target an image:
\* performConversion takes lines 117-163 and ends with the rasterizer.
DocToImage(r) ==
    /\ req[r].i > 0
    /\ getFileCategory(req[r].sourceExt) = "document"
    /\ getFileCategory(req[r].targetExt) = "image"

\* The last tool call of request r was the rasterizer.
LastCallRasterize(r) ==
    /\ Len(req[r].calls) > 0
    /\ req[r].calls[Len(req[r].calls)] = [file |-> req[r].i, tool |-> "magick"]

\* C16: after a rasterization that exited with status 0, if files
\* <base>-<digits>.<ext> exist in the target directory, exactly those are
\* the outputs and the exact target path is not among them; otherwise, if
\* the exact target path exists, it is the sole output; otherwise
\* performConversion fails with 'No output images generated'.
C16_OutputCollection ==
    \A r \in Requests :
        LET q == req[r]
            pages == MultiPageFiles(fs, q.targetPath)
        IN (DocToImage(r) /\ LastCallRasterize(r) /\ LastExitOk(r)) =>
              /\ q.pc = "verify" =>
                    IF pages # {}
                    THEN /\ Range(q.outputFiles) = pages
                         /\ Len(q.outputFiles) = Cardinality(pages)
                         /\ q.targetPath \notin Range(q.outputFiles)
                    ELSE /\ q.outputFiles = <<q.targetPath>>
                         /\ q.targetPath \in fs
              /\ q.pc = "catch" =>
                    /\ q.error = "No output images generated"
                    /\ pages = {}
                    /\ q.targetPath \notin fs

\* A rasterization left several page files and they were collected.
C16_Witness ==
    \E r \in Requests :
        /\ DocToImage(r)
        /\ LastCallRasterize(r)
        /\ LastExitOk(r)
        /\ req[r].pc = "verify"
        /\ Len(req[r].outputFiles) >= 2

\* The tools called for the k-th file of request r, in call order.
ToolsOf(r, k) ==
    LET own == SelectSeq(req[r].calls, LAMBDA c : c.file = k)
    IN [j \in 1..Len(own) |-> own[j].tool]

\* The strategy the claim assigns to a triple: the tools to run, in order;
\* none for an unsupported pair.  sourceIsPdf matters for document -> image
\* only.
ExpectedTools(sourceCat, targetCat, targetExt, sourceIsPdf) ==
    IF sourceCat = Unknown \/ targetCat = Unknown THEN <<>>
    ELSE IF sourceCat = targetCat
    THEN IF sourceCat = "image" THEN <<"magick">>
         ELSE IF sourceCat = "document" THEN <<"libreoffice">>
         ELSE <<"ffmpeg">>
    ELSE IF sourceCat = "image" /\ targetCat = "document"
    THEN IF targetExt = "pdf" THEN <<"magick">> ELSE <<"magick", "libreoffice">>
    ELSE IF sourceCat = "document" /\ targetCat = "image"
    THEN IF sourceIsPdf THEN <<"magick">> ELSE <<"libreoffice", "magick">>
    ELSE <<>>

IsPrefix(s, t) == Len(s) <= Len(t) /\ \A j \in 1..Len(s) : s[j] = t[j]

\* performConversion returned the outputs of the k-th file of request r.
Converted(r, k) == k <= Len(req[r].tempFiles)

\* C17: the tools performConversion runs for a file are those of the
\* strategy of (source category, target category, target extension), plus
\* whether the source is a PDF for document -> image: a converted file ran
\* exactly that sequence, a file under way or failed ran a prefix of it, an
\* unsupported pair ran no tool and was not converted, and two converted
\* files with the same triple and the same PDF-ness ran the same sequence.
C17_StrategyByTriple ==
    \A r \in load.reqs :
        LET q == req[r]
            targetCat == getFileCategory(q.targetExt)
            cat == [k \in 1..q.i |-> getFileCategory(q.exts[k])]
            tools == [k \in 1..q.i |-> ToolsOf(r, k)]
            expected == [k \in 1..q.i |->
                            ExpectedTools(cat[k], targetCat, q.targetExt, q.exts[k] = "pdf")]
        IN /\ \A k \in 1..q.i :
                /\ IsPrefix(tools[k], expected[k])
                /\ Converted(r, k) => tools[k] = expected[k]
                /\ expected[k] = <<>> => ~Converted(r, k)
           /\ \A j, k \in 1..Len(q.tempFiles) :
                (/\ cat[j] = cat[k]
                 /\ (cat[j] = "document" /\ targetCat = "image"
                        => (q.exts[j] = "pdf") <=> (q.exts[k] = "pdf")))
                => tools[j] = tools[k]

\* Two documents were converted to images with the same triple: the one
\* that is no PDF through the document converter, the PDF without it.
C17_Witness ==
    \E r \in Requests :
        /\ req[r].targetExt = "jpg"
        /\ Converted(r, 2)
        /\ req[r].exts[1] = "txt"
        /\ req[r].exts[2] = "pdf"
        /\ ToolsOf(r, 1) = <<"libreoffice", "magick">>
        /\ ToolsOf(r, 2) = <<"magick">>

\* Once request r has failed, its steps call no tool and take no further
\* file of the batch.
NoCallAfterFailure ==
    \A r \in Requests :
        Failed(r) => /\ req'[r].calls = req[r].calls
                     /\ req'[r].i = req[r].i
                     /\ req'[r].allOutputFiles = req[r].allOutputFiles

\* A tool call that failed is the last call of its request, and a failed
\* request has no call under way and goes to its catch branch only.
FailedCallIsLast ==
    \A r \in Requests :
        /\ \A c \in 1..Len(req[r].exits) :
              ~req[r].exits[c] => /\ c = Len(req[r].calls)
                                  /\ Failed(r)
        /\ Failed(r) => /\ Len(req[r].exits) = Len(req[r].calls)
                        /\ req[r].pc \in {"catch", "done"}
                        /\ \A c \in 1..Len(req[r].calls) : req[r].calls[c].file <= req[r].i

\* C18: after a tool invocation failed (non-zero exit or timeout) or an
\* expected output was found absent, no further tool is invoked for the
\* request: the step is not retried, the rest of the file's strategy is not
\* run and the remaining files of the batch are not converted.
C18_NoToolAfterFailure == []FailedCallIsLast /\ [][NoCallAfterFailure]_vars

\* The only tool call of a batch of several files failed on the first file
\* and the request is in its catch branch.
C18_Witness ==
    \E r \in Requests :
        /\ req[r].pc = "catch"
        /\ req[r].n >= 2
        /\ req[r].i = 1
        /\ req[r].exits = <<FALSE>>

\* Request r is over: its handler has finished with the response written,
\* or was rejected outside its try block, or the process has ended.
Over(r) == req[r].pc \in {"done", "rejected", "crashed"}

\* C19: every request receives exactly one response, a file download, a ZIP
\* stream or an error JSON: never more than one response is written, a
\* request that is over has one, and no error JSON follows a file or ZIP
\* response that has started.
C19_ExactlyOneResponse ==
    \A r \in Requests :
        LET resp == req[r].responses
        IN /\ Len(resp) <= 1
           /\ Over(r) => Len(resp) = 1
           /\ \A k \in 1..Len(resp) : resp[k].kind \in {"file", "zip", "json"}
           /\ \A j, k \in 1..Len(resp) :
                 (j < k /\ resp[j].kind \in {"file", "zip"}) => resp[k].kind # "json"

\* The paths a deletion pass of request r goes over: the uploads on the 400
\* response for a missing target format, else the outputs and inputs
\* recorded for cleanup.
DeletionPass(r) ==
    IF req[r].targetExt = "" THEN Uploads(r) ELSE CleanupFiles(req[r])

\* C20: when the deletion of one path fails, the deletion of the remaining
\* paths of the request is still attempted (they are gone once the request
\* is over) and the response is the one already determined: 400 for a
\* missing target format, 500 with the conversion's error after a failure,
\* the file or ZIP after a success.
C20_DeletionFailureTolerated ==
    \A r \in Requests :
        LET q == req[r]
        IN (Over(r) /\ q.unlinkFailed # {}) =>
              /\ (DeletionPass(r) \ q.unlinkFailed) \cap fs = {}
              /\ Len(q.responses) = 1
              /\ q.targetExt = "" =>
                    q.responses[1] = JsonResponse(400, "Target format is required")
              /\ Failed(r) => q.responses[1] = JsonResponse(500, q.error)
              /\ (q.targetExt # "" /\ ~Failed(r)) => q.responses[1].kind \in {"file", "zip"}

Categories == {"image", "document", "audio", "video"}

\* The category tables of part_001 (lines 30-39) and of server.js (lines
\* 51-66).
TablesMulti ==
    [image |-> ImageExts, document |-> DocumentExts,
     audio |-> AudioExts, video |-> VideoExts]

TablesServer ==
    [c \in Categories |->
        UNION {CONVERSION_TOOLS[k].extensions :
                 k \in {j \in DOMAIN CONVERSION_TOOLS : CONVERSION_TOOLS[j].category = c}}]

\* String s is the name e written in some letter case.
SpellsIgnoringCase(s, e) ==
    /\ Len(s) = Len(Spelling[e])
    /\ \A j \in 1..Len(s) : s[j].c = Spelling[e][j]

\* result is what the claim requires for string s under the tables: the
\* category of the table that lists s in some letter case, no other
\* category, and unknown when no table lists it.
ClassifiedBy(tables, s, result) ==
    /\ result \in Categories \cup {Unknown}
    /\ \A c \in Categories :
          result = c <=> \E e \in tables[c] : SpellsIgnoringCase(s, e)
    /\ result = Unknown <=>
          ~\E c \in Categories : \E e \in tables[c] : SpellsIgnoringCase(s, e)

\* C14: getFileCategory, in part_001 and in server.js, is total and
\* case-insensitive: for every extension string in any letter case it
\* returns exactly one of image, document, audio, video or unknown; an
\* extension of a category table maps to that category and to no other, an
\* extension in no table to unknown.
C14_ClassifyTotalCaseInsensitive ==
    /\ cls.multi # NotCalled => ClassifiedBy(TablesMulti, cls.extension, cls.multi)
    /\ cls.server # NotCalled => ClassifiedBy(TablesServer, cls.extension, cls.server)

\* "TiFf" was classified by both: an image for part_001, unknown for
\* server.js, whose tables do not list tiff.
C14_Witness ==
    /\ cls.extension = Cased("tiff", {1, 3})
    /\ cls.multi = "image"
    /\ cls.server = Unknown

\* C15: in server.js's single-file handler, after any failure of a request
\* (convertFile throwing or the output check failing) the uploaded input
\* and any file written at the derived output path are deleted when the 500
\* response has been written.
C15_SingleCleanupOnFailure ==
    (single.pc = "done" /\ single.error # "") =>
        /\ single.responses = <<JsonResponse(500, single.error)>>
        /\ single.inputPath \notin fs
        /\ single.derived \notin fs

\* C21: in document-to-image conversion the document converter is invoked
\* if and only if the source extension is not pdf, before the rasterizer,
\* and the rasterizer is not invoked when the converter was run and its
\* intermediate PDF is absent: the tools called for such a file are the
\* rasterizer alone for a PDF source, else the converter alone or the
\* converter and then the rasterizer; while the rasterizer runs after the
\* converter the intermediate PDF is on disk, and 'PDF conversion failed'
\* ends the file with the converter as its only call.
C21_ConverterBeforeRasterizer ==
    \A r \in load.reqs :
        LET q == req[r]
        IN /\ \A k \in 1..q.i :
                (getFileCategory(q.exts[k]) = "document"
                    /\ getFileCategory(q.targetExt) = "image") =>
                   IF q.exts[k] = "pdf"
                   THEN ToolsOf(r, k) = <<"magick">>
                   ELSE ToolsOf(r, k) \in {<<"libreoffice">>, <<"libreoffice", "magick">>}
           /\ (DocToImageViaPdf(r) /\ q.pc = "rasterize") =>
                 /\ q.pdfPath = WithExt(SourcePath(r), "pdf")
                 /\ q.pdfPath \in fs
                 /\ Len(q.exits) > 0
                 /\ q.exits[Len(q.exits)]
           /\ (DocToImageViaPdf(r) /\ q.error = "PDF conversion failed") =>
                 /\ ToolsOf(r, q.i) = <<"libreoffice">>
                 /\ WithExt(SourcePath(r), "pdf") \notin fs

\* The converter exited with status 0 without leaving the intermediate PDF:
\* the file has failed and the rasterizer was not called.
C21_Witness ==
    \E r \in Requests :
        /\ DocToImageViaPdf(r)
        /\ req[r].pc = "catch"
        /\ LastExitOk(r)
        /\ req[r].error = "PDF conversion failed"
        /\ ToolsOf(r, req[r].i) = <<"libreoffice">>

\* performConversion is running for a file of request r, or has returned or
\* thrown and the handler has not yet cleaned up.
InConversion(r) ==
    req[r].pc \in {"magick", "ffmpeg", "libreoffice", "magickTemp", "libreofficeTemp",
                   "docToPdf", "rasterize", "verify", "catch"}

\* C22: performConversion never deletes or renames the uploaded source, in
\* any strategy, on success or failure, the PDF source of a
\* document-to-image conversion included: every upload of a request is on
\* disk while performConversion runs and until the handler's cleanup.
C22_SourceKept ==
    \A r \in load.reqs :
        /\ InConversion(r) => SourcePath(r) \in fs
        /\ (req[r].pc \notin {"idle", "done", "rejected"} /\ req[r].cleanups = 0) =>
              Uploads(r) \subseteq fs

\* A PDF source was rasterized, the source itself being the rasterizer's
\* input, and performConversion is about to return.
C22_Witness ==
    \E r \in Requests :
        /\ DocToImage(r)
        /\ req[r].sourceExt = "pdf"
        /\ req[r].pc = "verify"
        /\ req[r].pdfPath = SourcePath(r)
        /\ LastExitOk(r)
        /\ SourcePath(r) \in fs

====
